---------------------------- MODULE Spec2Model ----------------------------
(***************************************************************************)
(* A model of the remote command executor (src/main.go): a SessionManager  *)
(* holding Sessions, each one interactive child process with its stdin and *)
(* stdout pipes, and the three HTTP handlers that drive them, each handler *)
(* run by its own goroutine.                                               *)
(*                                                                         *)
(* Bytes are their character codes: 10 is LF, 13 is CR, 97 is 'a', 48 + u  *)
(* the digit u. A UUID is the number of the uuid.New() call that minted    *)
(* it; its string form (UUIDString) is two characters instead of 36. The   *)
(* read chunk (BufSize) and the output ceiling (SizeLimit) are the         *)
(* source's 1024 and 1024*1024 scaled down so that a byte-exact stream can *)
(* be explored; their order (marker length < BufSize < SizeLimit) is kept. *)
(***************************************************************************)
EXTENDS Integers, Sequences, FiniteSets, TLC

\* ------------------------------------------------------------------ bounds
\* Number of concurrent request goroutines.
NumCallers == 2
\* Number of uuid.New() calls (session identifiers and markers together).
MaxUUID == 3

\* ------------------------------------------------------- program constants
\* buffer := make([]byte, 1024), scaled.
BufSize == 3
\* if len(output) > 1024*1024, scaled.
SizeLimit == 5
\* '\n' and '\r' of the trailing-newline cleanup.
LF == 10
CR == 13

Callers == 1..NumCallers
\* A session_id no CreateSession ever returned.
UnknownID == 0
\* The empty string as a session_id (the zero value of the decoded field).
EmptyID == -1
NoOne == 0

\* uuid.New().String(): distinct UUIDs have distinct strings over one alphabet.
UUIDString(u) == <<97, 48 + u>>

\* What the interpreter prints for the command's own text (Out-String), before
\* the marker: nothing, text without a terminator (which is also the first
\* character of every marker), text ending in LF, CRLF, CR, two terminators,
\* and more than the ceiling.
Outputs ==
  { <<>>, <<97>>, <<97, LF>>, <<97, CR, LF>>, <<97, CR>>, <<97, LF, LF>>,
    <<97, 97, 97, 97, 97, 97>> }

\* Write-Host '<marker>' ends its line with CRLF (powershell.exe).
HostNewline == <<CR, LF>>

VARIABLES
  uuidCount,   \* number of uuid.New() calls made so far
  sessions,    \* SessionManager.sessions: the identifiers in the map
  smMu,        \* SessionManager.mu: the caller holding the write lock, or NoOne
  heap,        \* the Session objects: id -> [Running, mu, StdinOpen]
  proc,        \* the child processes: id -> [alive, stdout, readFailed]
  pc,          \* each caller's position
  req,         \* each caller's request: [kind, sid, method, payload]
  marker,      \* RunCommand's marker (a UUID), 0 outside RunCommand
  output,      \* RunCommand's accumulated output
  lastErr,     \* err of RunCommand's last Stdout.Read
  stale,       \* bytes of earlier commands still unread when the command was written
  last         \* the response written by the step just taken, if it wrote one

vars == <<uuidCount, sessions, smMu, heap, proc, pc, req, marker, output,
          lastErr, stale, last>>

\* A request body: not JSON at all (wellFormed false), or a JSON object that
\* carries the identifier id under the key named key and the text command
\* under "command" (<<>> when that key is absent or its value is "").
NotJSON == [wellFormed |-> FALSE, key |-> "none", id |-> EmptyID, command |-> <<>>]

\* The body of a request made the way the handlers expect it.
JSONBody(sid) ==
  [wellFormed |-> TRUE, key |-> "session_id", id |-> sid, command |-> <<97>>]

NoReq == [kind |-> "none", sid |-> UnknownID, method |-> "none", payload |-> NotJSON]
\* No response: the step just taken ended no handler.
NoResponse ==
  [caller |-> NoOne, kind |-> "none", sid |-> UnknownID, status |-> "none",
   body |-> <<>>, via |-> "none", output |-> <<>>, marker |-> 0, stale |-> 0,
   method |-> "none", payload |-> NotJSON, code |-> 0, ctype |-> "none"]

Init ==
  /\ uuidCount = 0
  /\ sessions = {}
  /\ smMu = NoOne
  /\ heap = <<>>
  /\ proc = <<>>
  /\ pc = [c \in Callers |-> "idle"]
  /\ req = [c \in Callers |-> NoReq]
  /\ marker = [c \in Callers |-> 0]
  /\ output = [c \in Callers |-> <<>>]
  /\ lastErr = [c \in Callers |-> "nil"]
  /\ stale = [c \in Callers |-> 0]
  /\ last = NoResponse

\* ---------------------------------------------------------------- helpers
Min(a, b) == IF a < b THEN a ELSE b

\* s[:k] and s[k:] of a Go slice.
Take(s, k) == SubSeq(s, 1, k)
Drop(s, k) == SubSeq(s, k + 1, Len(s))

\* A function extended by one key (map insert, object allocation).
Put(f, k, v) == [x \in (DOMAIN f) \cup {k} |-> IF x = k THEN v ELSE f[x]]

\* Mutant of SessionLockFree: Lock() that does not wait for the holder.
SessionLockFree_NoWait(s) == TRUE

\* sync.Mutex.Lock() on Session.mu returns only when nobody holds it.
SessionLockFree(s) == heap[s].mu = NoOne

\* Mutant of RegistryLockFree: RLock() and Lock() that do not wait for the writer.
RegistryLockFree_NoWait == TRUE

\* sync.RWMutex on SessionManager.mu: Lock() and RLock() return only when no
\* writer holds it (no reader holds it across a step: GetSession is one step).
RegistryLockFree == smMu = NoOne

\* The marker scan of the read loop: the positions i (0-based) tried are
\* len(output)-n .. len(output)-len(marker); the result is the first i where
\* output[i:i+len(marker)] equals the marker, or -1.
ScanHits(out, n, m) ==
  { i \in (Len(out) - n)..(Len(out) - Len(m)) : SubSeq(out, i + 1, i + Len(m)) = m }

\* Mutant of FindMarker: the scan stops at the marker of any call, not only
\* at the call's own.
FindMarker_AnyMarker(out, n, m) ==
  LET hits == { i \in (Len(out) - n)..(Len(out) - Len(m)) :
                  \E u \in 1..MaxUUID : SubSeq(out, i + 1, i + Len(m)) = UUIDString(u) }
  IN IF Len(out) >= Len(m) /\ hits # {}
     THEN CHOOSE i \in hits : \A j \in hits : i <= j
     ELSE -1

FindMarker(out, n, m) ==
  IF Len(out) >= Len(m) /\ ScanHits(out, n, m) # {}
  THEN CHOOSE i \in ScanHits(out, n, m) : \A j \in ScanHits(out, n, m) : i <= j
  ELSE -1

\* Mutant of TrimCR: the '\r' of a CRLF is left in place.
TrimCR_Skip(r) == r

\* The cleanup of the result: a final '\n' is dropped, then a final '\r'.
TrimLF(r) == IF Len(r) > 0 /\ r[Len(r)] = LF THEN Take(r, Len(r) - 1) ELSE r
TrimCR(r) == IF Len(r) > 0 /\ r[Len(r)] = CR THEN Take(r, Len(r) - 1) ELSE r
TrimNewline(r) == TrimCR(TrimLF(r))

\* Mutant of NotRunning: RunCommand without the Running guard.
NotRunning_Never(s) == FALSE

\* if !s.Running: the guard at the head of RunCommand.
NotRunning(s) == ~heap[s].Running

\* Mutant of OverLimit: a ceiling test that lets one more byte through.
OverLimit_Late(out) == Len(out) > SizeLimit + 1

\* Mutant of OverLimit: the ceiling test off by one (>= for >).
OverLimit_AtLimit(out) == Len(out) >= SizeLimit

\* if len(output) > 1024*1024: the size ceiling, tested at the end of every
\* iteration of the read loop.
OverLimit(out) == Len(out) > SizeLimit

\* Mutant of Lookup: a lookup that still finds an identifier that was removed.
Lookup_Stale(m, k) == k \in m \/ k \in DOMAIN heap

\* session, exists := sm.sessions[sessionID].
Lookup(m, k) == k \in m

\* Mutant of Insert: the map is replaced instead of extended.
Insert_Replace(m, k) == {k}

\* sm.sessions[sessionID] = session.
Insert(m, k) == m \cup {k}

\* Mutant of Delete: EndSession that leaves the identifier in the map.
Delete_Keep(m, k) == m

\* delete(sm.sessions, sessionID).
Delete(m, k) == m \ {k}

\* json.NewDecoder(r.Body).Decode(&req): err when the body is not JSON; a
\* field of the struct is filled from the key its tag names and keeps its zero
\* value when the object has no such key.
Decode(payload) ==
  [err |-> ~payload.wellFormed,
   SessionID |-> IF payload.wellFormed /\ payload.key = "session_id"
                 THEN payload.id ELSE EmptyID,
   Command |-> IF payload.wellFormed THEN payload.command ELSE <<>>]

\* Mutant of Validate: the body is decoded before the method is looked at.
Validate_BodyFirst(kind, method, payload) ==
  IF kind # "start" /\ Decode(payload).err THEN "BadRequest"
  ELSE IF method # "POST" THEN "MethodNotAllowed"
  ELSE IF kind # "start" /\ Decode(payload).SessionID = EmptyID THEN "BadRequest"
  ELSE IF kind = "run" /\ Decode(payload).Command = <<>> THEN "BadRequest"
  ELSE "pass"

\* The head of the three handlers: the method test, then (run, end) the
\* decoding of the body and the test for empty fields.
Validate(kind, method, payload) ==
  IF method # "POST" THEN "MethodNotAllowed"
  ELSE IF kind = "start" THEN "pass"
  ELSE IF Decode(payload).err THEN "BadRequest"
  ELSE IF Decode(payload).SessionID = EmptyID THEN "BadRequest"
  ELSE IF kind = "run" /\ Decode(payload).Command = <<>> THEN "BadRequest"
  ELSE "pass"

\* What a handler writes for an outcome: the HTTP status code and the
\* Content-Type (http.Error writes text/plain; the start and end handlers
\* encode a JSON object, the run handler writes the output as it is).
Respond(kind, status) ==
  CASE status = "MethodNotAllowed" -> [code |-> 405, ctype |-> "text/plain"]
    [] status = "BadRequest" -> [code |-> 400, ctype |-> "text/plain"]
    [] status = "NotFound" /\ kind = "run" -> [code |-> 404, ctype |-> "text/plain"]
    [] status = "ok" /\ kind = "run" -> [code |-> 200, ctype |-> "text/plain"]
    [] status = "ok" -> [code |-> 200, ctype |-> "application/json"]
    [] OTHER -> [code |-> 500, ctype |-> "text/plain"]

\* The handler of caller c writes its response and returns: the goroutine
\* ends and its locals are gone. For a result of RunCommand (via is not
\* "none") out is the buffer it was cut from, and the response is recorded
\* with the call's marker and the number of earlier commands' bytes that were
\* unread when the call was written.
Finish(c, status, body, via, out) ==
  /\ last' = [caller |-> c, kind |-> req[c].kind, sid |-> req[c].sid,
              status |-> status, body |-> body, via |-> via, output |-> out,
              marker |-> IF via = "none" THEN 0 ELSE marker[c],
              stale |-> IF via = "none" THEN 0 ELSE stale[c],
              method |-> req[c].method, payload |-> req[c].payload,
              code |-> Respond(req[c].kind, status).code,
              ctype |-> Respond(req[c].kind, status).ctype]
  /\ pc' = [pc EXCEPT ![c] = "idle"]
  /\ req' = [req EXCEPT ![c] = NoReq]
  /\ marker' = [marker EXCEPT ![c] = 0]
  /\ output' = [output EXCEPT ![c] = <<>>]
  /\ lastErr' = [lastErr EXCEPT ![c] = "nil"]
  /\ stale' = [stale EXCEPT ![c] = 0]

\* A step that ends no handler writes no response.
Silent == last' = NoResponse

\* ------------------------------------------------------------- requests
\* A request arrives at /start-session, /run-command or /end-session and its
\* handler runs up to the first registry call: a request that fails the
\* handler's tests is answered at once and touches nothing else; one that
\* passes goes on with the decoded session_id (none for start).
Handle(c, kind, method, payload) ==
  /\ pc[c] = "idle"
  /\ IF Validate(kind, method, payload) = "pass"
     THEN /\ req' = [req EXCEPT ![c] =
                 [kind |-> kind,
                  sid |-> IF kind = "start" THEN UnknownID
                          ELSE Decode(payload).SessionID,
                  method |-> method, payload |-> payload]]
          /\ pc' = [pc EXCEPT ![c] =
                CASE kind = "start" -> "cs_spawn"
                  [] kind = "run" -> "rc_get"
                  [] OTHER -> "es_lock"]
          /\ Silent
     ELSE /\ last' = [NoResponse EXCEPT
                 !.caller = c, !.kind = kind,
                 !.status = Validate(kind, method, payload),
                 !.method = method, !.payload = payload,
                 !.code = Respond(kind, Validate(kind, method, payload)).code,
                 !.ctype = Respond(kind, Validate(kind, method, payload)).ctype]
          /\ UNCHANGED <<pc, req>>
  /\ UNCHANGED <<uuidCount, sessions, smMu, heap, proc, marker, output,
                 lastErr, stale>>

\* A well-formed request: POST with a session_id that some CreateSession
\* minted, or one that none did, and a command.
Request(c, kind, sid) == Handle(c, kind, "POST", JSONBody(sid))

\* ---------------------------------------------------------- CreateSession
\* uuid.New(), the pipes and cmd.Start(): on failure the error is returned
\* (the identifier is spent); on success the Session object exists, Running,
\* and is not yet in the map.
CreateSessionSpawn(c, started) ==
  /\ pc[c] = "cs_spawn"
  /\ uuidCount < MaxUUID
  /\ uuidCount' = uuidCount + 1
  /\ IF started
     THEN /\ heap' = Put(heap, uuidCount + 1,
                 [Running |-> TRUE, mu |-> NoOne, StdinOpen |-> TRUE])
          /\ proc' = Put(proc, uuidCount + 1, [alive |-> TRUE, stdout |-> <<>>, readFailed |-> FALSE])
          /\ req' = [req EXCEPT ![c].sid = uuidCount + 1]
          /\ pc' = [pc EXCEPT ![c] = "cs_insert"]
          /\ Silent
          /\ UNCHANGED <<marker, output, lastErr, stale>>
     ELSE /\ Finish(c, "SpawnError", <<>>, "none", <<>>)
          /\ UNCHANGED <<heap, proc>>
  /\ UNCHANGED <<sessions, smMu>>

\* sm.mu.Lock(); sm.sessions[sessionID] = session; sm.mu.Unlock(); the
\* handler answers with the identifier.
CreateSessionInsert(c) ==
  /\ pc[c] = "cs_insert"
  /\ RegistryLockFree
  /\ sessions' = Insert(sessions, req[c].sid)
  /\ Finish(c, "ok", <<req[c].sid>>, "none", <<>>)
  /\ UNCHANGED <<uuidCount, smMu, heap, proc>>

\* ------------------------------------------------------------- GetSession
\* handleRunCommand's lookup, under the read lock.
GetSession(c) ==
  /\ pc[c] = "rc_get"
  /\ RegistryLockFree
  /\ IF Lookup(sessions, req[c].sid)
     THEN /\ pc' = [pc EXCEPT ![c] = "rc_lock"]
          /\ Silent
          /\ UNCHANGED <<req, marker, output, lastErr, stale>>
     ELSE Finish(c, "NotFound", <<>>, "none", <<>>)
  /\ UNCHANGED <<uuidCount, sessions, smMu, heap, proc>>

\* ------------------------------------------------------------- EndSession
\* sm.mu.Lock() and the lookup: an absent identifier returns the error (the
\* deferred Unlock runs); a present one leaves the caller holding sm.mu and
\* about to call session.mu.Lock().
EndSessionLock(c) ==
  /\ pc[c] = "es_lock"
  /\ RegistryLockFree
  /\ IF Lookup(sessions, req[c].sid)
     THEN /\ smMu' = c
          /\ pc' = [pc EXCEPT ![c] = "es_slock"]
          /\ Silent
          /\ UNCHANGED <<req, marker, output, lastErr, stale>>
     ELSE /\ Finish(c, "NotFound", <<>>, "none", <<>>)
          /\ UNCHANGED smMu
  /\ UNCHANGED <<uuidCount, sessions, heap, proc>>

\* Mutant of EndSessionTerminate: EndSession that terminates under the
\* registry lock alone, without session.mu.Lock().
EndSessionTerminate_NoLock(c) ==
  /\ pc[c] = "es_slock"
  /\ heap' = [heap EXCEPT ![req[c].sid].Running = FALSE,
                          ![req[c].sid].StdinOpen = FALSE]
  /\ proc' = [proc EXCEPT ![req[c].sid].alive = FALSE, ![req[c].sid].stdout = <<>>]
  /\ pc' = [pc EXCEPT ![c] = "es_delete"]
  /\ Silent
  /\ UNCHANGED <<uuidCount, sessions, smMu, req, marker, output, lastErr, stale>>

\* session.mu.Lock(); if Running: Stdin.Close(), Process.Kill(), Running =
\* false. The caller now holds both locks and is about to delete the entry.
\* Nothing reads the stdout of a session that is not Running, so what the
\* killed process left there is dropped.
EndSessionTerminate(c) ==
  LET s == req[c].sid IN
  /\ pc[c] = "es_slock"
  /\ SessionLockFree(s)
  /\ IF heap[s].Running
     THEN /\ heap' = [heap EXCEPT ![s].mu = c, ![s].Running = FALSE,
                                   ![s].StdinOpen = FALSE]
          /\ proc' = [proc EXCEPT ![s].alive = FALSE, ![s].stdout = <<>>]
     ELSE /\ heap' = [heap EXCEPT ![s].mu = c]
          /\ UNCHANGED proc
  /\ pc' = [pc EXCEPT ![c] = "es_delete"]
  /\ Silent
  /\ UNCHANGED <<uuidCount, sessions, smMu, req, marker, output, lastErr, stale>>

\* Mutant of EndSessionDelete: EndSession without the deferred
\* session.mu.Unlock().
EndSessionDelete_NoSessionUnlock(c) ==
  /\ pc[c] = "es_delete"
  /\ sessions' = Delete(sessions, req[c].sid)
  /\ pc' = [pc EXCEPT ![c] = "es_unlock"]
  /\ Silent
  /\ UNCHANGED <<uuidCount, smMu, heap, proc, req, marker, output, lastErr, stale>>

\* delete(sm.sessions, sessionID); return nil: the deferred
\* session.mu.Unlock() runs first. The caller still holds sm.mu.
EndSessionDelete(c) ==
  LET s == req[c].sid IN
  /\ pc[c] = "es_delete"
  /\ sessions' = Delete(sessions, s)
  /\ heap' = [heap EXCEPT ![s].mu = NoOne]
  /\ pc' = [pc EXCEPT ![c] = "es_unlock"]
  /\ Silent
  /\ UNCHANGED <<uuidCount, smMu, proc, req, marker, output, lastErr, stale>>

\* The deferred sm.mu.Unlock() runs, EndSession returns nil and the handler
\* answers.
EndSessionReturn(c) ==
  /\ pc[c] = "es_unlock"
  /\ smMu' = NoOne
  /\ Finish(c, "ok", <<>>, "none", <<>>)
  /\ UNCHANGED <<uuidCount, sessions, heap, proc>>

\* ------------------------------------------------------------- RunCommand
\* s.mu.Lock(); the Running check; uuid.New() for the marker; Stdin.Write of
\* the wrapped command. A write to a process that has exited fails (broken
\* pipe). A process that takes the command will print the command's output,
\* then the marker and its line end. Every return releases s.mu (defer).
RunCommandBegin(c, out) ==
  LET s == req[c].sid IN
  /\ pc[c] = "rc_lock"
  /\ SessionLockFree(s)
  /\ IF NotRunning(s)
     THEN /\ Finish(c, "NotRunning", <<>>, "none", <<>>)
          /\ UNCHANGED <<uuidCount, heap, proc>>
     ELSE /\ uuidCount < MaxUUID
          /\ uuidCount' = uuidCount + 1
          /\ IF proc[s].alive
             THEN /\ heap' = [heap EXCEPT ![s].mu = c]
                  /\ proc' = [proc EXCEPT ![s].stdout =
                                @ \o out \o UUIDString(uuidCount + 1) \o HostNewline]
                  /\ marker' = [marker EXCEPT ![c] = uuidCount + 1]
                  /\ stale' = [stale EXCEPT ![c] = Len(proc[s].stdout)]
                  /\ pc' = [pc EXCEPT ![c] = "rc_read"]
                  /\ Silent
                  /\ UNCHANGED <<req, output, lastErr>>
             ELSE /\ Finish(c, "WriteError", <<>>, "none", <<>>)
                  /\ UNCHANGED <<heap, proc>>
  /\ UNCHANGED <<sessions, smMu>>

\* Mutant of RunCommandReturn: a return from the loop that skips the Unlock.
RunCommandReturn_NoUnlock(c, status, body, via, out) ==
  /\ heap' = heap
  /\ Finish(c, status, body, via, out)

\* The return of RunCommand from inside the read loop: the deferred Unlock.
RunCommandReturn(c, status, body, via, out) ==
  /\ heap' = [heap EXCEPT ![req[c].sid].mu = NoOne]
  /\ Finish(c, status, body, via, out)

\* One iteration of the read loop. proc[s].stdout is what the process has
\* written or is about to write: Stdout.Read returns what has arrived, n bytes
\* with 1 <= n <= len(buffer), or (0, io.EOF) when the process is gone and
\* nothing is left, or, when the operating system says so (ioerr), another
\* error (remembered in readFailed). It blocks while nothing has arrived and
\* the process lives.
ReadLoop(c, n, ioerr) ==
  LET s == req[c].sid
      out2 == output[c] \o Take(proc[s].stdout, n)
      i == FindMarker(out2, n, UUIDString(marker[c]))
  IN
  /\ pc[c] = "rc_read"
  /\ IF ioerr
     THEN /\ n = 0
          /\ RunCommandReturn(c, "ReadError", <<>>, "none", <<>>)
          /\ proc' = [proc EXCEPT ![s].readFailed = TRUE]
     ELSE IF n > 0
     THEN /\ n <= Min(BufSize, Len(proc[s].stdout))
          /\ proc' = [proc EXCEPT ![s].stdout = Drop(@, n)]
          /\ IF i >= 0
             THEN RunCommandReturn(c, "ok", TrimNewline(Take(out2, i)), "marker", out2)
             ELSE IF OverLimit(out2)
             THEN RunCommandReturn(c, "ok", out2, "ceiling", out2)
             ELSE /\ output' = [output EXCEPT ![c] = out2]
                  /\ lastErr' = [lastErr EXCEPT ![c] = "nil"]
                  /\ Silent
                  /\ UNCHANGED <<heap, pc, req, marker, stale>>
     ELSE /\ ~proc[s].alive
          /\ proc[s].stdout = <<>>
          /\ lastErr' = [lastErr EXCEPT ![c] = "EOF"]
          /\ Silent
          /\ UNCHANGED <<heap, proc, output, pc, req, marker, stale>>
  /\ UNCHANGED <<uuidCount, sessions, smMu>>

\* ------------------------------------------------------ the child process
\* The interpreter exits on its own (an `exit` command, a crash): of its
\* pending output the first k bytes were written and stay readable, the rest
\* is lost. Next lets it exit having written all of it or none of it.
ProcExit(s, k) ==
  /\ proc[s].alive
  /\ k <= Len(proc[s].stdout)
  /\ proc' = [proc EXCEPT ![s].alive = FALSE, ![s].stdout = Take(@, k)]
  /\ Silent
  /\ UNCHANGED <<uuidCount, sessions, smMu, heap, pc, req, marker, output,
                 lastErr, stale>>

\* ------------------------------------------------------------------ Next
Next ==
  \/ \E c \in Callers : Request(c, "start", UnknownID)
  \/ \E c \in Callers, sid \in (DOMAIN heap) \cup {UnknownID} : Request(c, "run", sid)
  \/ \E c \in Callers, sid \in (DOMAIN heap) \cup {UnknownID} : Request(c, "end", sid)
  \/ \E c \in Callers, started \in BOOLEAN : CreateSessionSpawn(c, started)
  \/ \E c \in Callers : CreateSessionInsert(c)
  \/ \E c \in Callers : GetSession(c)
  \/ \E c \in Callers, out \in Outputs : RunCommandBegin(c, out)
  \/ \E c \in Callers, n \in 0..BufSize, ioerr \in BOOLEAN : ReadLoop(c, n, ioerr)
  \/ \E c \in Callers : EndSessionLock(c)
  \/ \E c \in Callers : EndSessionTerminate(c)
  \/ \E c \in Callers : EndSessionDelete(c)
  \/ \E c \in Callers : EndSessionReturn(c)
  \/ \E s \in DOMAIN heap : \E k \in {0, Len(proc[s].stdout)} : ProcExit(s, k)

Spec == Init /\ [][Next]_vars

\* The server receiving well-formed start and end requests and any request to
\* /run-command: either method, a body that is not JSON or a JSON object with
\* the identifier under the key "session_id" or "sessionid" (the identifier of
\* a session, an unknown one or ""), with or without a command.
Methods == {"POST", "GET"}

Payloads ==
  {NotJSON} \cup
  [wellFormed : {TRUE}, key : {"session_id", "sessionid"},
   id : (DOMAIN heap) \cup {UnknownID, EmptyID}, command : {<<>>, <<97>>}]

\* The requests sent to /run-command: a POST with any body, and another
\* method with a body that is not JSON or with the body of a well-formed
\* request.
RunRequests ==
  ({"POST"} \X Payloads) \cup
  ((Methods \ {"POST"}) \X
     ({NotJSON} \cup { JSONBody(sid) : sid \in (DOMAIN heap) \cup {UnknownID} }))

\* For the handlers' answers only the way a command ends matters: text
\* without line ends, short enough for the marker to be found or long enough
\* for the ceiling.
PlainOutputs == { out \in Outputs : out # <<>> /\ \A k \in 1..Len(out) : out[k] = 97 }

NextHTTP ==
  \/ \E c \in Callers : Request(c, "start", UnknownID)
  \/ \E c \in Callers, r \in RunRequests : Handle(c, "run", r[1], r[2])
  \/ \E c \in Callers, sid \in (DOMAIN heap) \cup {UnknownID} : Request(c, "end", sid)
  \/ \E c \in Callers, started \in BOOLEAN : CreateSessionSpawn(c, started)
  \/ \E c \in Callers : CreateSessionInsert(c)
  \/ \E c \in Callers : GetSession(c)
  \/ \E c \in Callers, out \in PlainOutputs : RunCommandBegin(c, out)
  \/ \E c \in Callers, n \in 0..BufSize, ioerr \in BOOLEAN : ReadLoop(c, n, ioerr)
  \/ \E c \in Callers : EndSessionLock(c)
  \/ \E c \in Callers : EndSessionTerminate(c)
  \/ \E c \in Callers : EndSessionDelete(c)
  \/ \E c \in Callers : EndSessionReturn(c)
  \/ \E s \in DOMAIN heap : \E k \in {0, Len(proc[s].stdout)} : ProcExit(s, k)

SpecHTTP == Init /\ [][NextHTTP]_vars

\* The server under the scheduling the Go runtime gives: a goroutine that can
\* run does run, and a goroutine waiting in Lock() or RLock() gets the lock if
\* it is released again and again (sync.Mutex hands the lock to a waiter that
\* has starved; a waiting writer of sync.RWMutex holds back new readers). A
\* read of the process's output is not scheduled by the runtime: it returns
\* when the process writes, so nothing is assumed of ReadLoop. A request is
\* admitted only while a uuid.New() is left for it.
Minting == { c \in Callers : pc[c] \in {"cs_spawn", "rc_get", "rc_lock"} }

Admit == uuidCount + Cardinality(Minting) < MaxUUID

HandlerStep(c) ==
  \/ \E started \in BOOLEAN : CreateSessionSpawn(c, started)
  \/ CreateSessionInsert(c)
  \/ GetSession(c)
  \/ \E out \in Outputs : RunCommandBegin(c, out)
  \/ EndSessionLock(c)
  \/ EndSessionTerminate(c)
  \/ EndSessionDelete(c)
  \/ EndSessionReturn(c)

NextFair ==
  \/ \E c \in Callers : Admit /\ Request(c, "start", UnknownID)
  \/ \E c \in Callers, sid \in (DOMAIN heap) \cup {UnknownID} :
       Admit /\ Request(c, "run", sid)
  \/ \E c \in Callers, sid \in (DOMAIN heap) \cup {UnknownID} :
       Admit /\ Request(c, "end", sid)
  \/ \E c \in Callers : HandlerStep(c)
  \/ \E c \in Callers, n \in 0..BufSize, ioerr \in BOOLEAN : ReadLoop(c, n, ioerr)
  \/ \E s \in DOMAIN heap : \E k \in {0, Len(proc[s].stdout)} : ProcExit(s, k)

SpecFair ==
  Init /\ [][NextFair]_vars /\ \A c \in Callers : SF_vars(HandlerStep(c))

\* ================================================================ claims
\* The calls in flight on session s: written, and not yet returned.
InFlight(s) == { c \in Callers : pc[c] = "rc_read" /\ req[c].sid = s }

\* m occurs in out as a contiguous substring.
Contains(out, m) ==
  \E i \in 0..(Len(out) - Len(m)) : SubSeq(out, i + 1, i + Len(m)) = m

\* The 0-based index of the first occurrence of m in out (out contains m).
FirstIndex(out, m) ==
  CHOOSE i \in 0..(Len(out) - Len(m)) :
    /\ SubSeq(out, i + 1, i + Len(m)) = m
    /\ \A j \in 0..(i - 1) : SubSeq(out, j + 1, j + Len(m)) # m

\* r without one trailing line terminator: CRLF, else LF or CR, else nothing.
StripOneTerminator(r) ==
  IF Len(r) >= 2 /\ r[Len(r) - 1] = CR /\ r[Len(r)] = LF THEN Take(r, Len(r) - 2)
  ELSE IF Len(r) >= 1 /\ r[Len(r)] \in {CR, LF} THEN Take(r, Len(r) - 1)
  ELSE r

\* The step just taken returned a result (no error) from RunCommand.
Returned == last.kind = "run" /\ last.status = "ok"

\* C1: at most one RunCommand is in flight on a session at any instant, and
\* the call in flight is the one holding the session's lock: no other call has
\* written to the session's stdin or read from its stdout.
C1_OneInFlight ==
  \A s \in DOMAIN heap :
    /\ Cardinality(InFlight(s)) <= 1
    /\ \A c \in InFlight(s) : heap[s].mu = c

\* C1 witness: one call is in its read loop while a second RunCommand on the
\* same session waits for the lock.
C1_Witness ==
  \E c1, c2 \in Callers :
    /\ c1 # c2
    /\ pc[c1] = "rc_read" /\ pc[c2] = "rc_lock"
    /\ req[c1].sid = req[c2].sid

\* C2 (the claim as stated): on a session whose earlier commands all returned
\* a result (no read failed), the result of a command holds no byte that the
\* process wrote in response to an earlier command.
C2_NoEarlierBytes ==
  (Returned /\ ~proc[last.sid].readFailed) => Min(last.stale, Len(last.body)) = 0

\* C3 (the claim as stated): the read loop does not go on once the marker is a
\* contiguous substring of the accumulated buffer.
C3_StopsAtMarker ==
  \A c \in Callers :
    pc[c] = "rc_read" => ~Contains(output[c], UUIDString(marker[c]))

\* C4: when the marker is found, the result is the bytes accumulated before
\* the marker's first occurrence with exactly one trailing line terminator
\* (CR, LF or CRLF) removed if there is one, and nothing else changed.
C4_ResultBeforeMarker ==
  (Returned /\ last.via = "marker") =>
    /\ Contains(last.output, UUIDString(last.marker))
    /\ last.body =
         StripOneTerminator(
           Take(last.output, FirstIndex(last.output, UUIDString(last.marker))))

\* C4 witness: a marker-found result whose output ended in two terminators and
\* keeps one of them.
C4_Witness ==
  /\ Returned /\ last.via = "marker"
  /\ last.stale = 0
  /\ last.body = <<97, LF>>
  /\ Take(last.output, 3) = <<97, LF, LF>>

\* C5 (the claim as stated): a call whose read reported end-of-stream is not
\* still in the read loop, holding the session's lock.
C5_NoLoopOnEndedStream ==
  \A c \in Callers : pc[c] = "rc_read" => lastErr[c] # "EOF"

\* C6 (the claim as stated): the registry lock is not held while a command
\* executes, so registry operations never wait for a command to finish.
C6_RegistryLockNotHeldAcrossCommand ==
  \A c \in Callers : pc[c] = "rc_read" => RegistryLockFree

\* What the process prints for the call with marker m on session s, whose
\* buffer is buf and which found st earlier bytes unread: the stream from the
\* call's first read on is buf followed by what is still unread, and the
\* command's own output lies between the earlier bytes and the marker.
OwnOutputLen(buf, s, m, st) ==
  FirstIndex(buf \o proc[s].stdout, UUIDString(m)) - st

\* The command of that call printed more than the size ceiling.
OverCeiling(buf, s, m, st) ==
  /\ Contains(buf \o proc[s].stdout, UUIDString(m))
  /\ OwnOutputLen(buf, s, m, st) > SizeLimit

\* C7 (the claim as stated): a command that printed more than the size ceiling
\* returns a truncated result, everything accumulated when the ceiling was
\* exceeded.
C7_OverCeilingTruncated ==
  (Returned /\ OverCeiling(last.output, last.sid, last.marker, last.stale)) =>
    /\ last.via = "ceiling"
    /\ last.body = last.output
    /\ Len(last.body) < last.stale + Len(UUIDString(last.marker)) +
         OwnOutputLen(last.output, last.sid, last.marker, last.stale)

\* C7 (amended): a command that printed more than the size ceiling never waits
\* for output that is not coming while its process lives, and its read loop
\* never goes on with a buffer above the ceiling; when it returns a result,
\* that is either the truncated one (everything accumulated, more than the
\* ceiling, the marker not found) or, when the marker was found in the read
\* that crossed the ceiling, the whole output before the marker less one line
\* end; a call ended by the ceiling is a success and not an error; right
\* after either the session is still Running with its lock free, which is
\* all the next RunCommand asks for.
C7_CeilingIsSuccess ==
  /\ \A c \in Callers : pc[c] = "rc_read" => Len(output[c]) <= SizeLimit
  /\ \A c \in Callers :
       ( /\ pc[c] = "rc_read"
         /\ proc[req[c].sid].alive
         /\ OverCeiling(output[c], req[c].sid, marker[c], stale[c]) ) =>
           proc[req[c].sid].stdout # <<>>
  /\ last.via = "ceiling" =>
       /\ last.status = "ok"
       /\ last.body = last.output
       /\ Len(last.output) > SizeLimit
       /\ heap[last.sid].Running
       /\ SessionLockFree(last.sid)
  /\ (Returned /\ OverCeiling(last.output, last.sid, last.marker, last.stale)) =>
       /\ last.via \in {"ceiling", "marker"}
       /\ last.via = "marker" =>
            /\ Len(last.output) > SizeLimit
            /\ Len(last.output) <= SizeLimit + BufSize
            /\ last.body =
                 StripOneTerminator(
                   Take(last.output, FirstIndex(last.output, UUIDString(last.marker))))
       /\ heap[last.sid].Running
       /\ SessionLockFree(last.sid)

\* C7 witness: a call has just returned a ceiling result, longer than the
\* ceiling and cut before the marker, for a command that printed more than
\* the ceiling.
C7_Witness ==
  /\ Returned /\ last.via = "ceiling"
  /\ last.stale = 0
  /\ OverCeiling(last.output, last.sid, last.marker, last.stale)
  /\ Len(last.body) > SizeLimit
  /\ ~Contains(last.body, UUIDString(last.marker))

\* C8: the Running flag is one-way: once false it stays false, a RunCommand
\* that takes the lock then returns the not-running error, and nothing
\* reaches the process.
C8_RunningOneWay ==
  [][\A s \in DOMAIN heap :
       ~heap[s].Running =>
         /\ ~heap'[s].Running
         /\ proc'[s] = proc[s]
         /\ \A c \in Callers :
              (pc[c] = "rc_lock" /\ req[c].sid = s /\ pc'[c] # "rc_lock") =>
                (last'.caller = c /\ last'.status = "NotRunning")
    ]_vars

\* C8 witness: a RunCommand on a terminated session has just returned the
\* not-running error.
C8_Witness ==
  /\ last.kind = "run" /\ last.status = "NotRunning"
  /\ ~heap[last.sid].Running

\* EndSession(s) has succeeded: the session is terminated and removed (the
\* call that did it may still be releasing the registry lock).
Ended(s) ==
  /\ s \in DOMAIN heap
  /\ ~heap[s].Running
  /\ \A c \in Callers : ~(pc[c] = "es_delete" /\ req[c].sid = s)

\* C9: once EndSession(id) has succeeded (the session is terminated and
\* removed), a run-command request for id that has not looked the session up
\* yet gets not-found, one that has and then takes the command lock gets
\* not-running, no call is in flight on the session, and nothing reaches the
\* terminated process.
C9_RunAfterEnd ==
  [][\A c \in Callers :
       LET s == req[c].sid IN
       (req[c].kind = "run" /\ Ended(s)) =>
         /\ s \notin sessions
         /\ pc[c] # "rc_read"
         /\ (pc[c] = "rc_get" /\ pc'[c] # "rc_get") =>
              (last'.caller = c /\ last'.status = "NotFound")
         /\ (pc[c] = "rc_lock" /\ pc'[c] # "rc_lock") =>
              (last'.caller = c /\ last'.status = "NotRunning")
         /\ proc'[s] = proc[s]
    ]_vars

\* C9 witness: a run-command request for a session whose EndSession succeeded
\* has just been answered not-found.
C9_Witness ==
  /\ last.kind = "run" /\ last.status = "NotFound"
  /\ last.sid \in DOMAIN heap
  /\ ~heap[last.sid].Running

\* C10 (the claim as stated): after RunCommand failed with a write error or a
\* read error the session's Running flag is false.
C10_NotRunningAfterIOError ==
  last.status \in {"WriteError", "ReadError"} => ~heap[last.sid].Running

\* C11: EndSession on an identifier that is not in the registry returns the
\* not-found error and changes neither the mapping nor any session (Running
\* flag, process), and leaves the registry lock free for later calls; so does
\* a second EndSession for an identifier whose first EndSession succeeded.
C11_EndSessionNotFound ==
  [][\A c \in Callers :
       (pc[c] = "es_lock" /\ pc'[c] # "es_lock" /\ req[c].sid \notin sessions) =>
         /\ last'.caller = c /\ last'.kind = "end" /\ last'.status = "NotFound"
         /\ sessions' = sessions
         /\ heap' = heap
         /\ proc' = proc
         /\ RegistryLockFree'
         /\ pc'[c] = "idle"
    ]_vars

\* C11 witness: a second EndSession for a session that an earlier EndSession
\* terminated and removed has just been answered not-found.
C11_Witness ==
  /\ last.kind = "end" /\ last.status = "NotFound"
  /\ last.sid \in DOMAIN heap
  /\ ~heap[last.sid].Running
  /\ RegistryLockFree

\* C12: EndSession terminates and removes atomically for the other registry
\* operations: a GetSession that returns a session as found returns one whose
\* Running flag is true, and an entry that is terminated but still in the map
\* exists only while the EndSession that is removing it holds the registry
\* lock.
C12_NoHalfRemovedLookup ==
  [][/\ \A c \in Callers :
          (pc[c] = "rc_get" /\ pc'[c] = "rc_lock") =>
            (heap[req[c].sid].Running /\ heap'[req[c].sid].Running)
     /\ \A s \in sessions :
          ~heap[s].Running =>
            \E c \in Callers : pc[c] = "es_delete" /\ req[c].sid = s /\ smMu = c
    ]_vars

\* C12 witness: a GetSession for a session is waiting for the registry lock
\* while an EndSession has terminated that session and not yet removed it.
C12_Witness ==
  \E c1, c2 \in Callers :
    /\ pc[c1] = "es_delete" /\ pc[c2] = "rc_get"
    /\ req[c1].sid = req[c2].sid
    /\ req[c1].sid \in sessions
    /\ ~heap[req[c1].sid].Running

\* The caller whose release c is waiting for, or NoOne when c is not waiting
\* in Lock() or RLock().
WaitsFor(c) ==
  IF pc[c] \in {"cs_insert", "rc_get", "es_lock"} THEN smMu
  ELSE IF pc[c] \in {"rc_lock", "es_slock"} THEN heap[req[c].sid].mu
  ELSE NoOne

\* c can run, or the lock it waits for is held by a call that is executing and
\* can itself be followed, through at most k holders, to one that can run.
RECURSIVE CanProceed(_, _)
CanProceed(c, k) ==
  \/ WaitsFor(c) = NoOne
  \/ /\ k > 0
     /\ pc[WaitsFor(c)] \in {"rc_read", "es_slock", "es_delete", "es_unlock"}
     /\ CanProceed(WaitsFor(c), k - 1)

NoLockCycle == \A c \in Callers : CanProceed(c, NumCallers)

\* C13: terminating concurrently with commands never deadlocks: in every
\* reachable state each caller waiting for a lock waits, directly or through
\* other waiting callers, for a call that is executing and waits for no lock
\* (so never are all callers blocked on locks); and if no command stays in its
\* read loop for ever, every RunCommand, GetSession, CreateSession and
\* EndSession call that was started returns.
C13_NoDeadlock ==
  /\ []NoLockCycle
  /\ (\A c \in Callers : []<>(pc[c] # "rc_read")) =>
       (\A c \in Callers : (pc[c] # "idle") ~> (pc[c] = "idle"))

\* C13 witness: an EndSession holding the registry lock waits for the command
\* in flight on its session.
C13_Witness ==
  \E c1, c2 \in Callers :
    /\ c1 # c2
    /\ pc[c1] = "rc_read" /\ pc[c2] = "es_slock"
    /\ req[c1].sid = req[c2].sid
    /\ smMu = c2

\* The CreateSession calls that have built their Session and not yet put it
\* in the map.
Inserting == { c \in Callers : pc[c] = "cs_insert" }

\* C14: whatever the interleaving of CreateSession and EndSession calls, the
\* identifier of a newly built session is one no earlier or concurrent
\* CreateSession obtained (removed ones included), a successful CreateSession
\* adds exactly its identifier to the map and returns it, an identifier leaves
\* the map only by an EndSession for it that found and terminated it, and
\* every session built and not terminated is in the map or about to be
\* inserted.
C14_FreshIdentifiers ==
  [][/\ \A c \in Callers :
          (pc[c] = "cs_spawn" /\ pc'[c] = "cs_insert") =>
            /\ req'[c].sid \notin DOMAIN heap
            /\ req'[c].sid \notin sessions
            /\ \A d \in Inserting : req[d].sid # req'[c].sid
     /\ \A c \in Inserting :
          pc'[c] # "cs_insert" =>
            /\ last'.caller = c /\ last'.status = "ok"
            /\ last'.body = <<req[c].sid>>
            /\ req[c].sid \notin sessions
            /\ sessions' = sessions \cup {req[c].sid}
     /\ \A s \in sessions :
          s \notin sessions' =>
            \E c \in Callers :
              /\ req[c].kind = "end" /\ req[c].sid = s
              /\ pc[c] = "es_delete" /\ pc'[c] = "es_unlock"
     /\ \A s \in DOMAIN heap :
          heap[s].Running =>
            (s \in sessions \/ \E c \in Inserting : req[c].sid = s)
     /\ \A c, d \in Inserting : c # d => req[c].sid # req[d].sid
    ]_vars

\* C14 witness: of two concurrent CreateSession calls one has just returned
\* its identifier, now in the map, while the other is about to insert its own.
C14_Witness ==
  /\ last.kind = "start" /\ last.status = "ok"
  /\ last.body[1] \in sessions
  /\ \E c \in Inserting : req[c].sid # last.body[1] /\ req[c].sid \notin sessions

\* The decoded request of response r lacks a field the run handler requires.
BadFields(r) ==
  \/ Decode(r.payload).err
  \/ Decode(r.payload).SessionID = EmptyID
  \/ Decode(r.payload).Command = <<>>

\* Response r of the run handler follows the order of its tests.
RunMapping(r) ==
  /\ r.method # "POST" => r.code = 405
  /\ (r.method = "POST" /\ BadFields(r)) => r.code = 400
  /\ r.code \in {405, 400} => (r.body = <<>> /\ r.via = "none")
  /\ (r.method = "POST" /\ ~BadFields(r)) =>
       /\ r.sid = Decode(r.payload).SessionID
       /\ r.status = "NotFound" <=> r.code = 404
       /\ r.status \in {"NotRunning", "WriteError", "ReadError"} <=> r.code = 500
       /\ r.status = "ok" <=> r.code = 200
       /\ r.code \in {404, 500, 200}
       /\ r.code # 200 => (r.body = <<>> /\ r.via = "none")
       /\ r.code = 200 =>
            /\ r.ctype = "text/plain"
            /\ r.via \in {"marker", "ceiling"}
            /\ r.via = "ceiling" => r.body = r.output

\* C15: the run-command handler maps failures in this order: a method other
\* than POST is rejected (405) whatever the body; else an undecodable body or
\* an empty session_id or command gives bad-request (400); else an identifier
\* that is not in the registry when it is looked up gives not-found (404),
\* and only then; else an error of RunCommand gives server-fault (500); and
\* only a successful RunCommand gives 200 with the raw output as a text/plain
\* body.
C15_RunCommandErrorMapping ==
  [][/\ last'.kind = "run" => RunMapping(last')
     /\ \A c \in Callers :
          (pc[c] = "rc_get" /\ pc'[c] # "rc_get") =>
            IF req[c].sid \in sessions
            THEN pc'[c] = "rc_lock" /\ last' = NoResponse
            ELSE last'.caller = c /\ last'.status = "NotFound" /\ last'.code = 404
     /\ \A c \in Callers :
          (pc[c] = "idle" /\ pc'[c] = "rc_get") =>
            /\ req'[c].method = "POST" /\ ~Decode(req'[c].payload).err
            /\ req'[c].sid = Decode(req'[c].payload).SessionID
            /\ req'[c].sid # EmptyID
            /\ Decode(req'[c].payload).Command # <<>>
    ]_vars

\* C15 witness: a GET to /run-command whose body is not JSON either has just
\* been answered 405, the method test coming first.
C15_Witness ==
  /\ last.kind = "run" /\ last.method = "GET"
  /\ ~last.payload.wellFormed
  /\ last.code = 405

\* C16 (the claim as stated): a POST /run-command whose JSON body carries a
\* live session's identifier under the key "sessionid" with a non-empty
\* command runs the command and is answered with a JSON object holding the
\* output.
C16_ReadmeRequestRuns ==
  ( /\ last.kind = "run" /\ last.method = "POST"
    /\ last.payload.wellFormed /\ last.payload.key = "sessionid"
    /\ last.payload.id \in sessions
    /\ heap[last.payload.id].Running /\ proc[last.payload.id].alive
    /\ last.payload.command # <<>> ) =>
      (last.status = "ok" /\ last.ctype = "application/json")

\* C17: RunCommand releases the session's lock on every exit path: right
\* after a RunCommand has returned (not-running, write error, read error,
\* marker found or ceiling) the session's lock is free, and whenever the lock
\* of a session is held, its holder is a RunCommand or EndSession call that is
\* executing on that session.
C17_LockReleasedOnExit ==
  /\ \A s \in DOMAIN heap :
       ~SessionLockFree(s) =>
         /\ pc[heap[s].mu] \in {"rc_read", "es_delete"}
         /\ req[heap[s].mu].sid = s
  /\ (last.kind = "run" /\
        last.status \in {"NotRunning", "WriteError", "ReadError", "ok"}) =>
       SessionLockFree(last.sid)

\* C17 witness: a RunCommand has just returned a read error while another
\* call waits for the lock of the same session, which is free.
C17_Witness ==
  /\ last.kind = "run" /\ last.status = "ReadError"
  /\ SessionLockFree(last.sid)
  /\ \E c \in Callers : pc[c] = "rc_lock" /\ req[c].sid = last.sid

\* C18: EndSession closes the input stream, kills the process and turns the
\* Running flag false only in a step taken while no RunCommand is in flight on
\* the session and its lock is free: a termination requested during a command
\* stays waiting at session.mu.Lock() until the command has returned.
C18_TerminateWaitsForCommand ==
  [][\A s \in DOMAIN heap :
       /\ ( \/ heap[s].Running /\ ~heap'[s].Running
            \/ heap[s].StdinOpen /\ ~heap'[s].StdinOpen ) =>
              /\ InFlight(s) = {}
              /\ SessionLockFree(s)
              /\ proc[s].alive => ~proc'[s].alive
       /\ InFlight(s) # {} =>
            \A c \in Callers :
              (pc[c] = "es_slock" /\ req[c].sid = s) => pc'[c] = "es_slock"
    ]_vars

\* C18 witness: an EndSession stands at session.mu.Lock() while a command is
\* in flight on the session, which is still Running with its input stream
\* open and its process alive.
C18_Witness ==
  \E c \in Callers :
    /\ pc[c] = "es_slock"
    /\ InFlight(req[c].sid) # {}
    /\ heap[req[c].sid].Running /\ heap[req[c].sid].StdinOpen
    /\ proc[req[c].sid].alive

\* C19: every RunCommand call mints a marker that no call has used before
\* (so calls on one session, consecutive or waiting on each other, never
\* share a marker, nor is a marker a session identifier), and a call's read
\* loop is ended as marker-found only by its own marker: the buffer it
\* returns from holds that marker, whatever earlier markers it holds.
C19_OwnMarkerOnly ==
  [][/\ \A c \in Callers :
          /\ marker[c] <= uuidCount
          /\ marker[c] # 0 => marker[c] \notin DOMAIN heap
          /\ (marker[c] = 0 /\ marker'[c] # 0) =>
               /\ marker'[c] > uuidCount
               /\ marker'[c] > last.marker
               /\ \A d \in Callers : marker'[c] > marker[d]
          /\ (pc[c] = "rc_read" /\ pc'[c] # "rc_read" /\ last'.via = "marker") =>
               /\ last'.marker = marker[c]
               /\ Contains(last'.output, UUIDString(marker[c]))
               /\ Len(last'.body) <= FirstIndex(last'.output, UUIDString(marker[c]))
     /\ \A c, d \in Callers :
          (c # d /\ marker[c] # 0) => marker[c] # marker[d]
    ]_vars

\* C19 witness: a call has just returned on its own marker from a buffer that
\* holds, before it, the marker of an earlier call on the session.
C19_Witness ==
  /\ Returned /\ last.via = "marker"
  /\ \E u \in 1..(last.marker - 1) :
       /\ Contains(last.output, UUIDString(u))
       /\ FirstIndex(last.output, UUIDString(u)) <
            FirstIndex(last.output, UUIDString(last.marker))

\* C20: the accumulated buffer never grows beyond the ceiling plus one read
\* chunk: a read is issued only with a buffer of at most the ceiling, every
\* buffer a call returns from is at most ceiling + chunk long, and a
\* size-ceiling result is longer than the ceiling and at most ceiling + chunk.
C20_BufferBound ==
  /\ \A c \in Callers :
       pc[c] = "rc_read" => Len(output[c]) <= SizeLimit
  /\ Len(last.output) <= SizeLimit + BufSize
  /\ last.via = "ceiling" =>
       /\ Len(last.body) > SizeLimit
       /\ Len(last.body) <= SizeLimit + BufSize

\* C20 witness: a size-ceiling result of exactly ceiling + chunk bytes: the
\* buffer stood at the ceiling and a full chunk was read.
C20_Witness ==
  /\ Returned /\ last.via = "ceiling"
  /\ Len(last.body) = SizeLimit + BufSize

=============================================================================
